---- MODULE Spec2Model ----
(***************************************************************************)
(* The spreadsheet ingestion pipeline of                                   *)
(* src/src/lib/backend/google-sheets-client.ts:                            *)
(*   parseComplianceData, parseIPCData, mapRowToTask (pure functions) and  *)
(*   fetchAllSheets, fetchAllComplianceData, fetchAllIPCData (async).      *)
(*                                                                         *)
(* JavaScript strings that the code transforms (String(), toLowerCase,     *)
(* trim) are sequences of one-character strings; object keys, labels and   *)
(* message texts, which the code only compares or copies, are TLA+ strings.*)
(***************************************************************************)
EXTENDS Integers, Sequences, FiniteSets, TLC

VARIABLES
    pc,             \* position of the caller / of the ingestion run
    raw,            \* argument of parseComplianceData
    compliance,     \* its return value
    sheet,          \* argument of parseIPCData (a worksheet)
    ipcData,        \* return value of parseIPCData / fetchAllIPCData
    row,            \* argument of mapRowToTask
    task,           \* its return value
    SHEET_SOURCES,  \* the configured sources, in order
    sheetsTasks,    \* fetchAllSheets: the per-source promises
    complianceTasks,\* fetchAllComplianceData: the per-source promises
    ipcPc,          \* fetchAllIPCData: where it is suspended
    settled,        \* the state of the three functions' promises
    dataMap,        \* value of fetchAllSheets
    complianceMap,  \* value of fetchAllComplianceData
    served,         \* what the server answered to each request, and whether
                    \* an answer came before that of an earlier source
    httpGets,       \* number of HTTP GETs issued
    ipcUrl,         \* fetchAllIPCData: the URL it requests
    cache           \* the snapshot cache and its callers

pureVars == <<raw, compliance, sheet, row, task>>
ingestVars == <<SHEET_SOURCES, sheetsTasks, complianceTasks, ipcPc, settled,
                dataMap, complianceMap, served, httpGets, ipcUrl, cache>>

\* ------------------------------------------------------------------------
\* Bounds of the model
\* ------------------------------------------------------------------------

\* Most blanks put before and after a cell's text.
MaxPad == 1

\* Most configured sources.
MaxSources == 2

\* Last column and last row (0-indexed) of a served worksheet's range.
GridCols == 29
GridRows == 2

\* Most callers of the snapshot cache and most aggregation runs it starts.
MaxCallers == 2
MaxRuns == 3

\* ------------------------------------------------------------------------
\* JavaScript values: null, undefined, number, string, object
\* ------------------------------------------------------------------------

Null      == [t |-> "null",      n |-> 0, s |-> <<>>]
Undefined == [t |-> "undefined", n |-> 0, s |-> <<>>]
Num(k)    == [t |-> "number",    n |-> k, s |-> <<>>]
Str(cs)   == [t |-> "string",    n |-> 0, s |-> cs]
\* An object or function value; s is its printed name.
Obj(name) == [t |-> "object",    n |-> 0, s |-> name]

\* ToBoolean: null, undefined, 0 and "" are falsy.
Truthy(v) ==
    CASE v.t = "string" -> v.s # <<>>
      [] v.t = "number" -> v.n # 0
      [] v.t = "object" -> TRUE
      [] OTHER          -> FALSE

UpperChars == <<"A","B","C","D","E","F","G","H","I","J","K","L","M",
                "N","O","P","Q","R","S","T","U","V","W","X","Y","Z">>
LowerChars == <<"a","b","c","d","e","f","g","h","i","j","k","l","m",
                "n","o","p","q","r","s","t","u","v","w","x","y","z">>
DigitChars == <<"0","1","2","3","4","5","6","7","8","9">>
WhiteSpace == {" ", "\t", "\n"}

ToLowerChar(c) ==
    IF \E i \in DOMAIN UpperChars : UpperChars[i] = c
    THEN LowerChars[CHOOSE i \in DOMAIN UpperChars : UpperChars[i] = c]
    ELSE c

ToUpperChar(c) ==
    IF \E i \in DOMAIN LowerChars : LowerChars[i] = c
    THEN UpperChars[CHOOSE i \in DOMAIN LowerChars : LowerChars[i] = c]
    ELSE c

\* String.prototype.toLowerCase
ToLowerCase(cs) == [i \in DOMAIN cs |-> ToLowerChar(cs[i])]

RECURSIVE TrimStart(_)
TrimStart(cs) ==
    IF cs # <<>> /\ Head(cs) \in WhiteSpace THEN TrimStart(Tail(cs)) ELSE cs

RECURSIVE TrimEnd(_)
TrimEnd(cs) ==
    IF cs # <<>> /\ cs[Len(cs)] \in WhiteSpace
    THEN TrimEnd(SubSeq(cs, 1, Len(cs) - 1))
    ELSE cs

\* String.prototype.trim
Trim(cs) == TrimEnd(TrimStart(cs))

RECURSIVE NatToChars(_)
NatToChars(k) ==
    IF k < 10 THEN <<DigitChars[k + 1]>>
    ELSE NatToChars(k \div 10) \o <<DigitChars[(k % 10) + 1]>>

\* String(val)
ToStr(v) ==
    CASE v.t = "string"    -> v.s
      [] v.t = "number"    -> IF v.n < 0 THEN <<"-">> \o NatToChars(-v.n)
                              ELSE NatToChars(v.n)
      [] v.t = "null"      -> <<"n","u","l","l">>
      [] v.t = "undefined" -> <<"u","n","d","e","f","i","n","e","d">>
      [] OTHER             -> <<"[","o","b","j","e","c","t","]">>

\* ------------------------------------------------------------------------
\* Cell contents the checks draw from
\* ------------------------------------------------------------------------

Pad(k) == [i \in 1..k |-> " "]
Capitalize(cs) == [i \in DOMAIN cs |-> IF i = 1 THEN ToUpperChar(cs[i]) ELSE cs[i]]
Padded(words) ==
    { Pad(l) \o w \o Pad(r) : l \in 0..MaxPad, r \in 0..MaxPad,
                              w \in words \cup {Capitalize(x) : x \in words} }

YesNoWords == { <<"y","e","s">>, <<"n","o">>, <<"n","a">> }

\* Raw values of a compliance cell: absent, empty, numbers and texts.
RawValues ==
    {Null, Num(0), Num(1), Str(<<>>)} \cup {Str(cs) : cs \in Padded(YesNoWords)}

\* ------------------------------------------------------------------------
\* parseComplianceData
\* ------------------------------------------------------------------------

Yes == Str(<<"Y","e","s">>)
No  == Str(<<"N","o">>)

parseYesNo_caseSensitive(val) ==
    IF ~Truthy(val) /\ val # Num(0) THEN Null
    ELSE LET normalized == Trim(ToStr(val))
         IN  IF normalized = <<"y","e","s">> THEN Yes
             ELSE IF normalized = <<"n","o">> THEN No
             ELSE Null

parseYesNo(val) ==
    IF ~Truthy(val) /\ val # Num(0) THEN Null
    ELSE LET normalized == Trim(ToLowerCase(ToStr(val)))
         IN  IF normalized = <<"y","e","s">> THEN Yes
             ELSE IF normalized = <<"n","o">> THEN No
             ELSE Null

allBlank_any(staffRfb, cesmps, ohs) ==
    staffRfb = Null \/ cesmps = Null \/ ohs = Null

allBlank(staffRfb, cesmps, ohs) ==
    staffRfb = Null /\ cesmps = Null /\ ohs = Null

ComplianceIssues_ohsFirst(staffRfb, cesmps, ohs) ==
       (IF ohs # Yes
        THEN <<IF ohs = Null THEN "OHS measures status unknown"
               ELSE "OHS measures not in place">>
        ELSE <<>>)
    \o (IF staffRfb # Yes
        THEN <<IF staffRfb = Null THEN "Staff RFB status unknown"
               ELSE "Staff RFB not submitted">>
        ELSE <<>>)
    \o (IF cesmps # Yes
        THEN <<IF cesmps = Null THEN "CESMPS submission status unknown"
               ELSE "CESMPS not submitted">>
        ELSE <<>>)

\* The three checks that push onto `issues`, in source order.
ComplianceIssues(staffRfb, cesmps, ohs) ==
       (IF staffRfb # Yes
        THEN <<IF staffRfb = Null THEN "Staff RFB status unknown"
               ELSE "Staff RFB not submitted">>
        ELSE <<>>)
    \o (IF cesmps # Yes
        THEN <<IF cesmps = Null THEN "CESMPS submission status unknown"
               ELSE "CESMPS not submitted">>
        ELSE <<>>)
    \o (IF ohs # Yes
        THEN <<IF ohs = Null THEN "OHS measures status unknown"
               ELSE "OHS measures not in place">>
        ELSE <<>>)

\* RawComplianceData
RawComplianceData(staff, cesmpsV, ohsV) ==
    [no_of_staff_rfb |-> staff, cesmps_submitted |-> cesmpsV, ohs_measures |-> ohsV]

\* `raw` is null or a RawComplianceData.
parseComplianceData(r) ==
    IF r = Null
    THEN [no_of_staff_rfb |-> Null, cesmps_submitted |-> Null, ohs_measures |-> Null,
          status |-> "UNKNOWN", issues |-> <<"Compliance data not available">>]
    ELSE LET staffRfb == parseYesNo(r.no_of_staff_rfb)
             cesmps   == parseYesNo(r.cesmps_submitted)
             ohs      == parseYesNo(r.ohs_measures)
         IN  IF allBlank(staffRfb, cesmps, ohs)
             THEN [no_of_staff_rfb |-> staffRfb, cesmps_submitted |-> cesmps,
                   ohs_measures |-> ohs, status |-> "UNKNOWN",
                   issues |-> <<"All compliance fields are blank">>]
             ELSE LET issues == ComplianceIssues(staffRfb, cesmps, ohs)
                  IN  [no_of_staff_rfb |-> staffRfb, cesmps_submitted |-> cesmps,
                       ohs_measures |-> ohs,
                       status |-> IF Len(issues) = 0 THEN "COMPLIANT"
                                  ELSE "NON_COMPLIANT",
                       issues |-> issues]

\* ------------------------------------------------------------------------
\* A caller of parseComplianceData
\* ------------------------------------------------------------------------

\* A Snapshot names, field by field, the aggregation run that produced the
\* field; run 0 is no run.
SnapshotOf(r) == [tasks |-> r, complianceByPackage |-> r, ipc |-> r, fetchedAt |-> r]
NoSnapshot == SnapshotOf(0)
Callers == 1..MaxCallers
NoCall == [at |-> "idle", joined |-> 0, got |-> NoSnapshot]

\* The cache after construction: Empty, no run in flight, no caller.
EmptyCache ==
    [snapshot |-> NoSnapshot, stale |-> FALSE, inflight |-> {},
     parts |-> [r \in 1..MaxRuns |-> {}], runs |-> 0,
     callers |-> [c \in Callers |-> NoCall]]

\* No fetch: nothing configured, nothing requested.
NoFetch ==
    /\ SHEET_SOURCES = <<>> /\ sheetsTasks = <<>> /\ complianceTasks = <<>>
    /\ ipcPc = "idle"
    /\ settled = [sheets |-> "idle", compliance |-> "idle", ipc |-> "idle"]
    /\ dataMap = <<>> /\ complianceMap = <<>>
    /\ served = [sheets |-> <<>>, compliance |-> <<>>, ipc |-> <<>>,
                 overtook |-> [sheets |-> FALSE, compliance |-> FALSE]]
    /\ httpGets = 0
    /\ ipcUrl = ""

\* No ingestion run and an unused cache.
NoIngestion == NoFetch /\ cache = EmptyCache

ComplianceInit ==
    /\ pc = "call"
    /\ raw \in {Null} \cup
          { RawComplianceData(a, b, c) : a \in RawValues, b \in RawValues, c \in RawValues }
    /\ compliance = Null
    /\ sheet = Null /\ ipcData = Null /\ row = Null /\ task = Null
    /\ NoIngestion

CallParseComplianceData ==
    /\ pc = "call"
    /\ compliance' = parseComplianceData(raw)
    /\ pc' = "return"
    /\ UNCHANGED <<raw, sheet, ipcData, row, task, ingestVars>>

vars == <<pc, raw, compliance, sheet, ipcData, row, task, SHEET_SOURCES, sheetsTasks,
          complianceTasks, ipcPc, settled, dataMap, complianceMap, served, httpGets,
          ipcUrl, cache>>

SpecCompliance == ComplianceInit /\ [][CallParseComplianceData]_vars

\* ------------------------------------------------------------------------
\* Claims about parseComplianceData
\* ------------------------------------------------------------------------

ComplianceFields == <<compliance.no_of_staff_rfb, compliance.cesmps_submitted,
                      compliance.ohs_measures>>
NonYesCount == Cardinality({i \in 1..3 : ComplianceFields[i] # Yes})
Returned == pc = "return" /\ raw # Null

\* C1: for every combination of the three raw inputs the status is UNKNOWN
\* iff all three normalized fields are Unknown, COMPLIANT iff all three are
\* Yes, NON_COMPLIANT otherwise, and then the number of issues is the number
\* of fields that are not Yes.
C1_StatusRule ==
    Returned =>
        /\ \A i \in 1..3 : ComplianceFields[i] \in {Yes, No, Null}
        /\ compliance.status = "UNKNOWN"
              <=> \A i \in 1..3 : ComplianceFields[i] = Null
        /\ compliance.status = "COMPLIANT"
              <=> \A i \in 1..3 : ComplianceFields[i] = Yes
        /\ compliance.status \in {"UNKNOWN", "COMPLIANT", "NON_COMPLIANT"}
        /\ compliance.status = "NON_COMPLIANT"
              => Len(compliance.issues) = NonYesCount

C1_Witness ==
    /\ Returned
    /\ compliance.status = "NON_COMPLIANT"
    /\ Len(compliance.issues) = 2
    /\ compliance.no_of_staff_rfb = Null
    /\ compliance.ohs_measures = No

IssueWhenUnknown == <<"Staff RFB status unknown", "CESMPS submission status unknown",
                      "OHS measures status unknown">>
IssueWhenNo == <<"Staff RFB not submitted", "CESMPS not submitted",
                 "OHS measures not in place">>
NonYesFields == {i \in 1..3 : ComplianceFields[i] # Yes}

\* C2: a NON_COMPLIANT result lists exactly one issue per non-Yes field, in
\* the order Staff RFB, CESMPS, OHS; the entry of a field says "unknown" when
\* the field is Unknown and "not submitted" / "not in place" when it is No.
\* Yes, "no", null gives CESMPS not submitted, OHS measures status unknown.
C2_IssuesPerField ==
    (Returned /\ compliance.status = "NON_COMPLIANT") =>
        /\ Len(compliance.issues) = Cardinality(NonYesFields)
        /\ \A i \in NonYesFields :
              LET k == Cardinality({j \in NonYesFields : j <= i})
              IN  compliance.issues[k] =
                      IF ComplianceFields[i] = Null THEN IssueWhenUnknown[i]
                      ELSE IssueWhenNo[i]
        /\ raw = RawComplianceData(Yes, Str(<<"n","o">>), Null)
              => compliance.issues =
                     <<"CESMPS not submitted", "OHS measures status unknown">>

C2_Witness ==
    /\ Returned
    /\ raw = RawComplianceData(Yes, Str(<<"n","o">>), Null)
    /\ compliance.status = "NON_COMPLIANT"
    /\ compliance.issues = <<"CESMPS not submitted", "OHS measures status unknown">>

ComplianceFieldNames == {"no_of_staff_rfb", "cesmps_submitted", "ohs_measures"}

\* The raw value is a text that reads `word` once trimmed and lowercased.
ReadsAs(v, word) == v.t = "string" /\ ToLowerCase(Trim(v.s)) = word

\* C14: parseYesNo is total and idempotent: every raw value (absent, empty,
\* number, text) gives Yes, No or Unknown; Yes exactly for a text that trims
\* and lowercases to "yes", No exactly for "no"; a value that is already
\* Yes, No or Unknown is returned as it is.
C14_TotalIdempotent ==
    Returned =>
        \A f \in ComplianceFieldNames :
            /\ compliance[f] \in {Yes, No, Null}
            /\ compliance[f] = Yes <=> ReadsAs(raw[f], <<"y","e","s">>)
            /\ compliance[f] = No <=> ReadsAs(raw[f], <<"n","o">>)
            /\ raw[f] \in {Yes, No, Null} => compliance[f] = raw[f]
            /\ parseYesNo(compliance[f]) = compliance[f]

C14_Witness ==
    /\ Returned
    /\ raw = RawComplianceData(Yes, No, Num(1))
    /\ compliance.no_of_staff_rfb = Yes
    /\ compliance.cesmps_submitted = No
    /\ compliance.ohs_measures = Null

\* ------------------------------------------------------------------------
\* parseIPCData
\* ------------------------------------------------------------------------

\* A worksheet is a sparse grid: a function from the A1-style addresses of
\* its cells to cell objects [v |-> value].
Cell(value) == [v |-> value]

RECURSIVE EncodeColFrom(_)
EncodeColFrom(col) ==
    IF col = 0 THEN ""
    ELSE EncodeColFrom((col - 1) \div 26) \o UpperChars[((col - 1) % 26) + 1]

\* XLSX.utils.encode_cell({ r, c }): 0-indexed row and column to "Y2".
encode_cell_row1(r, c) == EncodeColFrom(c + 1) \o ToString(r)

encode_cell(r, c) == EncodeColFrom(c + 1) \o ToString(r + 1)

\* Columns Y..AD, 0-indexed, and the index of row 2.
FirstIPCCol == 24
LastIPCCol  == 29
IPCRow      == 1

ipcLabels == <<"IPC 1", "IPC 2", "IPC 3", "IPC 4", "IPC 5", "IPC 6">>

NotSubmitted == <<"n","o","t"," ","s","u","b","m","i","t","t","e","d">>
Submitted    == <<"s","u","b","m","i","t","t","e","d">>
InProcess    == <<"i","n"," ","p","r","o","c","e","s","s">>
Released     == <<"r","e","l","e","a","s","e","d">>

\* The own keys of statusMap.
IPCVocabulary == {NotSubmitted, Submitted, InProcess, Released}

\* The keys statusMap, an object literal, inherits from Object.prototype.
ObjectPrototypeKeys == {
    <<"c","o","n","s","t","r","u","c","t","o","r">>,
    <<"_","_","p","r","o","t","o","_","_">>,
    <<"t","o","S","t","r","i","n","g">>,
    <<"v","a","l","u","e","O","f">>,
    <<"h","a","s","O","w","n","P","r","o","p","e","r","t","y">>,
    <<"i","s","P","r","o","t","o","t","y","p","e","O","f">>,
    <<"t","o","L","o","c","a","l","e","S","t","r","i","n","g">>,
    <<"p","r","o","p","e","r","t","y","I","s","E","n","u","m","e","r","a","b","l","e">> }

\* statusMap[key]: an own key gives its status, an inherited key gives the
\* inherited member (an object or function), any other key gives undefined.
statusMapGet(key) ==
    IF key \in IPCVocabulary THEN Str(key)
    ELSE IF key \in ObjectPrototypeKeys THEN Obj(key)
    ELSE Undefined

\* sheet[address]
SheetGet(sh, address) == IF address \in DOMAIN sh THEN sh[address] ELSE Undefined

\* cellValue?.v ? String(cellValue.v).toLowerCase().trim() : null
statusRawOf(cellValue) ==
    IF cellValue # Undefined /\ Truthy(cellValue.v)
    THEN Str(Trim(ToLowerCase(ToStr(cellValue.v))))
    ELSE Null

\* statusRaw && statusMap[statusRaw] ? statusMap[statusRaw] : null
statusOf(statusRaw) ==
    IF Truthy(statusRaw) /\ Truthy(statusMapGet(statusRaw.s))
    THEN statusMapGet(statusRaw.s)
    ELSE Null

\* One record per column 24..29, pushed in column order.
parseIPCData(sh) ==
    [records |->
        [i \in 1..(LastIPCCol - FirstIPCCol + 1) |->
            LET col        == FirstIPCCol + (i - 1)
                statusCell == encode_cell(IPCRow, col)
                cellValue  == SheetGet(sh, statusCell)
            IN  [ipcNumber |-> ipcLabels[col - FirstIPCCol + 1],
                 status    |-> statusOf(statusRawOf(cellValue))]]]

\* ------------------------------------------------------------------------
\* Worksheets the checks draw from
\* ------------------------------------------------------------------------

IPCAddresses    == <<"Y2", "Z2", "AA2", "AB2", "AC2", "AD2">>
HeaderAddresses == <<"Y1", "Z1", "AA1", "AB1", "AC1", "AD1">>

\* Cells around the six: the columns before and after, and row 3.
Surroundings ==
    [a \in {"X2", "AE2", "Y3", "Z3", "AA3", "AB3", "AC3", "AD3", "A1", "A2"} |->
        CASE a = "X2"  -> Cell(Str(Submitted))
          [] a = "AE2" -> Cell(Str(NotSubmitted))
          [] a = "A1"  -> Cell(Str(<<"S","i","t","e"," ","I","D">>))
          [] a = "A2"  -> Cell(Str(<<"S","1">>))
          [] OTHER     -> Cell(Str(InProcess))]

\* Header rows: the documented labels, none, or status words in row 1.
HeaderRows == {
    [i \in 1..6 |-> Str(<<"I","P","C"," ">> \o NatToChars(i))],
    [i \in 1..6 |-> Undefined],
    [i \in 1..6 |-> Str(Released)] }

\* The worksheet with data cells `cells` and header cells `hdr` in Y..AD;
\* an undefined entry is an absent cell.
SheetOf(cells, hdr) ==
    LET present == {IPCAddresses[i] : i \in {j \in 1..6 : cells[j] # Undefined}}
                   \cup {HeaderAddresses[i] : i \in {j \in 1..6 : hdr[j] # Undefined}}
        idx(a, addrs) == CHOOSE i \in 1..6 : addrs[i] = a
    IN  [a \in present \cup DOMAIN Surroundings |->
            IF a \in DOMAIN Surroundings THEN Surroundings[a]
            ELSE IF \E i \in 1..6 : IPCAddresses[i] = a
                 THEN Cell(cells[idx(a, IPCAddresses)])
                 ELSE Cell(hdr[idx(a, HeaderAddresses)])]

\* Contents tried in every combination over the six cells.
CommonCells == { Undefined,
                 Str(<<" ">> \o Capitalize(Released)),
                 Str(NotSubmitted),
                 Str(<<"d","o","n","e">>) }

OtherWords == { <<"r","e","l","e","a","s","e">>,
                <<"s","u","b","m","i","t","t","e","d","."  >>,
                <<"c","o","n","s","t","r","u","c","t","o","r">>,
                <<"_","_","p","r","o","t","o","_","_">>,
                <<"t","o","S","t","r","i","n","g">> }

\* Contents tried in one cell at a time, the other five absent.
ProbeCells ==
    {Null, Num(0), Num(7), Str(<<>>), Str(<<" ">>)}
    \cup {Str(cs) : cs \in Padded(IPCVocabulary \cup OtherWords)}

Sheets ==
    { SheetOf(cells, hdr) : cells \in [1..6 -> CommonCells], hdr \in HeaderRows }
    \cup { SheetOf([i \in 1..6 |-> IF i = p THEN v ELSE Undefined],
                   [i \in 1..6 |-> Str(<<"I","P","C"," ">> \o NatToChars(i))]) :
               p \in 1..6, v \in ProbeCells }

\* ------------------------------------------------------------------------
\* A caller of parseIPCData
\* ------------------------------------------------------------------------

IPCInit ==
    /\ pc = "call"
    /\ sheet \in Sheets
    /\ ipcData = Null
    /\ raw = Null /\ compliance = Null /\ row = Null /\ task = Null
    /\ NoIngestion

CallParseIPCData ==
    /\ pc = "call"
    /\ ipcData' = parseIPCData(sheet)
    /\ pc' = "return"
    /\ UNCHANGED <<raw, compliance, sheet, row, task, ingestVars>>

SpecIPC == IPCInit /\ [][CallParseIPCData]_vars

\* ------------------------------------------------------------------------
\* Claims about parseIPCData
\* ------------------------------------------------------------------------

\* The trimmed, lowercased text of the N-th of the six cells; <<>> when the
\* cell is absent or holds no text.
CellText(n) ==
    LET c == SheetGet(sheet, IPCAddresses[n])
    IN  IF c = Undefined \/ c.v.t \notin {"string", "number"} THEN <<>>
        ELSE Trim(ToLowerCase(ToStr(c.v)))

\* C4: each of the six cells maps to a status only when its trimmed,
\* lowercased text is one of the four vocabulary words; every other content,
\* an absent or empty cell included, gives the Unknown (null) status.
C4_ClosedVocabulary ==
    pc = "return" =>
        \A n \in 1..6 :
            LET st == ipcData.records[n].status
            IN  /\ st \in {Str(w) : w \in IPCVocabulary} \cup {Null}
                /\ st # Null => CellText(n) \in IPCVocabulary /\ st = Str(CellText(n))
                /\ CellText(n) \in IPCVocabulary => st = Str(CellText(n))

\* C5: the N-th record is labelled "IPC N" and carries the status of the
\* N-th of the cells Y2, Z2, AA2, AB2, AC2, AD2, whatever row 1 holds.
C5_PositionDetermined ==
    pc = "return" =>
        /\ Len(ipcData.records) = 6
        /\ \A n \in 1..6 :
              /\ ipcData.records[n].ipcNumber = ipcLabels[n]
              /\ ipcData.records[n].status =
                     statusOf(statusRawOf(SheetGet(sheet, IPCAddresses[n])))
        /\ <<ipcData.records[1].ipcNumber, ipcData.records[6].ipcNumber>>
               = <<"IPC 1", "IPC 6">>

C5_Witness ==
    /\ pc = "return"
    /\ "Y1" \in DOMAIN sheet /\ sheet["Y1"].v = Str(Released)
    /\ ipcData.records[1].status = Str(NotSubmitted)
    /\ ipcData.records[2].status = Null
    /\ ipcData.records[6].status = Str(Released)

\* ------------------------------------------------------------------------
\* mapRowToTask
\* ------------------------------------------------------------------------

\* A SheetRow is a function from header names to values; a header the row
\* does not have reads as undefined.
RowGet(r, key) == IF key \in DOMAIN r THEN r[key] ELSE Undefined

IsDigits(cs) == cs # <<>> /\ \A i \in DOMAIN cs : \E d \in DOMAIN DigitChars : DigitChars[d] = cs[i]

RECURSIVE CharsToNat(_)
CharsToNat(cs) ==
    IF cs = <<>> THEN 0
    ELSE 10 * CharsToNat(SubSeq(cs, 1, Len(cs) - 1))
         + (CHOOSE d \in 0..9 : DigitChars[d + 1] = cs[Len(cs)])

NaN == [t |-> "NaN", n |-> 0, s |-> <<>>]

\* Number(val) on integers: blanks are trimmed, an empty text is 0, a text
\* of digits with an optional sign is its value, anything else is NaN.
ToNumber(v) ==
    CASE v.t = "number" -> v
      [] v.t = "null"   -> Num(0)
      [] v.t = "string" ->
            LET txt == Trim(v.s)
            IN  IF txt = <<>> THEN Num(0)
                ELSE IF IsDigits(txt) THEN Num(CharsToNat(txt))
                ELSE IF Head(txt) = "-" /\ IsDigits(Tail(txt)) THEN Num(-CharsToNat(Tail(txt)))
                ELSE IF Head(txt) = "+" /\ IsDigits(Tail(txt)) THEN Num(CharsToNat(Tail(txt)))
                ELSE NaN
      [] OTHER -> NaN

\* row[key1] || row[key2]
FirstTruthy(r, key1, key2) ==
    IF Truthy(RowGet(r, key1)) THEN RowGet(r, key1) ELSE RowGet(r, key2)

getValue(r, key1, key2) ==
    LET val == FirstTruthy(r, key1, key2)
    IN  IF Truthy(val) THEN Str(Trim(ToStr(val))) ELSE Str(<<>>)

getNumber(r, key1, key2) ==
    LET val == FirstTruthy(r, key1, key2)
    IN  IF val = Null \/ val = Undefined \/ val = Str(<<>>) THEN Null
        ELSE LET num == ToNumber(val)
             IN  IF num = NaN THEN Null ELSE num

\* The text split at each "/".
RECURSIVE SplitSlash(_)
SplitSlash(cs) ==
    IF \A i \in DOMAIN cs : cs[i] # "/" THEN <<cs>>
    ELSE LET k == CHOOSE i \in DOMAIN cs : cs[i] = "/" /\ \A j \in 1..(i - 1) : cs[j] # "/"
         IN  <<SubSeq(cs, 1, k - 1)>> \o SplitSlash(SubSeq(cs, k + 1, Len(cs)))

\* parseDMY of ../dataParser: a day/month/year text gives a date, any other
\* text gives null.
parseDMY(v) ==
    LET parts == SplitSlash(v.s)
    IN  IF /\ Len(parts) = 3
           /\ \A i \in 1..3 : IsDigits(parts[i])
           /\ CharsToNat(parts[1]) \in 1..31
           /\ CharsToNat(parts[2]) \in 1..12
        THEN [t |-> "date", n |-> 0, s |-> v.s]
        ELSE Null

HasNoSiteId_nullOnly(r) ==
    RowGet(r, "Site ID") \in {Null, Undefined} /\ RowGet(r, "site_id") \in {Null, Undefined}

\* The skip-empty-rows test: !row['Site ID'] && !row['site_id']
HasNoSiteId(r) == ~Truthy(RowGet(r, "Site ID")) /\ ~Truthy(RowGet(r, "site_id"))

\* Reading a property of null or undefined throws a TypeError: the first
\* statement of the try block throws when the row itself is missing.
BodyThrows(r) == r \in {Null, Undefined}

Raises_noCatch(r) == BodyThrows(r)

\* try { ... } catch (error) { ...; return null }: whatever the body throws
\* is caught, so no row makes the call raise.
Raises(r) == FALSE

mapRowToTask(r, packageId, packageName) ==
    IF BodyThrows(r) THEN Null
    ELSE IF HasNoSiteId(r) THEN Null
    ELSE [
        package_id             |-> packageId,
        package_name           |-> packageName,
        district               |-> getValue(r, "District", "district"),
        site_id                |-> getValue(r, "Site ID", "site_id"),
        site_name              |-> getValue(r, "Site Name", "site_name"),
        discipline             |-> getValue(r, "Discipline", "discipline"),
        task_name              |-> getValue(r, "Task Name", "task_name"),
        planned_start          |-> parseDMY(getValue(r, "Planned Start", "planned_start")),
        planned_finish         |-> parseDMY(getValue(r, "Planned Finish", "planned_finish")),
        planned_duration_days  |-> getNumber(r, "Planned Duration (Days)", "planned_duration_days"),
        actual_start           |-> parseDMY(getValue(r, "Actual Start", "actual_start")),
        actual_finish          |-> parseDMY(getValue(r, "Actual Finish", "actual_finish")),
        progress_pct           |-> getNumber(r, "Progress %", "progress_pct"),
        Variance               |-> getNumber(r, "Variance", "Variance"),
        delay_flag_calc        |-> getValue(r, "Delay Flag", "delay_flag_calc"),
        last_updated           |-> parseDMY(getValue(r, "Last Updated", "last_updated")),
        remarks                |-> getValue(r, "Remarks", "remarks"),
        photo_folder_url       |-> getValue(r, "Photo Folder", "photo_folder_url"),
        cover_photo_share_url  |-> getValue(r, "Cover Photo", "cover_photo_share_url"),
        before_photo_share_url |-> getValue(r, "Before Photo", "before_photo_share_url"),
        after_photo_share_url  |-> getValue(r, "After Photo", "after_photo_share_url"),
        cover_photo_direct_url  |-> Null,
        before_photo_direct_url |-> Null,
        after_photo_direct_url  |-> Null ]

\* ------------------------------------------------------------------------
\* Rows the checks draw from
\* ------------------------------------------------------------------------

FirstSpellings == {"District", "Site Name", "Discipline", "Task Name", "Planned Start",
    "Planned Finish", "Planned Duration (Days)", "Actual Start", "Actual Finish",
    "Progress %", "Variance", "Delay Flag", "Last Updated", "Remarks", "Photo Folder",
    "Cover Photo", "Before Photo", "After Photo"}
SecondSpellings == {"district", "site_name", "discipline", "task_name", "planned_start",
    "planned_finish", "planned_duration_days", "actual_start", "actual_finish",
    "progress_pct", "delay_flag_calc", "last_updated", "remarks", "photo_folder_url",
    "cover_photo_share_url", "before_photo_share_url", "after_photo_share_url"}

SiteValues == { Undefined, Null, Str(<<>>), Num(0), Num(12), Str(<<" ">>),
                Str(<<"S","1">>), Str(<<" ","S","2"," ">>) }

OtherValues == { Undefined, Null, Str(<<>>), Num(0), Num(5), Str(<<" ">>),
                 Str(<<" ","4","2"," ">>), Str(<<"a","b","c">>),
                 Str(<<"1","5","/","0","3","/","2","0","2","4">>) }

\* The row whose two site-identifier headers hold a and b and whose other
\* headers hold v1 (first spellings) and v2 (second spellings); an undefined
\* value is a header the row does not have.
RowOf(a, b, v1, v2) ==
    LET keys == (IF a = Undefined THEN {} ELSE {"Site ID"})
                \cup (IF b = Undefined THEN {} ELSE {"site_id"})
                \cup (IF v1 = Undefined THEN {} ELSE FirstSpellings)
                \cup (IF v2 = Undefined THEN {} ELSE SecondSpellings)
    IN  [k \in keys |->
            IF k = "Site ID" THEN a
            ELSE IF k = "site_id" THEN b
            ELSE IF k \in FirstSpellings THEN v1
            ELSE v2]

\* Every such row, and a row that is itself null or undefined.
Rows == { RowOf(a, b, v1, v2) : a \in SiteValues, b \in SiteValues,
                                v1 \in OtherValues, v2 \in OtherValues }
        \cup {Null, Undefined}

\* ------------------------------------------------------------------------
\* A caller of mapRowToTask
\* ------------------------------------------------------------------------

TaskInit ==
    /\ pc = "call"
    /\ row \in Rows
    /\ task = Null
    /\ raw = Null /\ compliance = Null /\ sheet = Null /\ ipcData = Null
    /\ NoIngestion

CallMapRowToTask ==
    /\ pc = "call"
    /\ IF Raises(row)
       THEN pc' = "throw" /\ task' = task
       ELSE pc' = "return" /\ task' = mapRowToTask(row, "PKG-1", "Package 1")
    /\ UNCHANGED <<raw, compliance, sheet, ipcData, row, ingestVars>>

SpecTask == TaskInit /\ [][CallMapRowToTask]_vars

\* ------------------------------------------------------------------------
\* Claims about mapRowToTask
\* ------------------------------------------------------------------------

\* A site-identifier header that is not in the row, or holds null or "".
AbsentOrEmpty(key) == RowGet(row, key) \in {Undefined, Null, Str(<<>>)}

\* C10: a row in which both site-identifier spellings, "Site ID" and
\* "site_id", are absent or empty yields no record, whatever its other
\* fields hold.
C10_NoSiteIdNoRecord ==
    (pc = "return" /\ AbsentOrEmpty("Site ID") /\ AbsentOrEmpty("site_id"))
        => task = Null

C10_Witness ==
    /\ pc = "return"
    /\ AbsentOrEmpty("Site ID") /\ AbsentOrEmpty("site_id")
    /\ RowGet(row, "District") = Str(<<"a","b","c">>)
    /\ RowGet(row, "progress_pct") = Num(5)
    /\ task = Null

IsRow == row \notin {Null, Undefined}

\* C11: the site identifier is the only filter: a row with a present,
\* non-empty value under "Site ID" or "site_id" yields a record, whatever
\* its other fields hold.
C11_OnlySiteIdFilters ==
    (pc = "return" /\ IsRow /\ (~AbsentOrEmpty("Site ID") \/ ~AbsentOrEmpty("site_id")))
        => task # Null

\* The two spellings of the numeric and of the date fields.
NumericFields == { <<"planned_duration_days", "Planned Duration (Days)", "planned_duration_days">>,
                   <<"progress_pct", "Progress %", "progress_pct">>,
                   <<"Variance", "Variance", "Variance">> }
DateFields == { <<"planned_start", "Planned Start", "planned_start">>,
                <<"planned_finish", "Planned Finish", "planned_finish">>,
                <<"actual_start", "Actual Start", "actual_start">>,
                <<"actual_finish", "Actual Finish", "actual_finish">>,
                <<"last_updated", "Last Updated", "last_updated">> }
StringFields == { <<"district", "District", "district">>,
                  <<"site_name", "Site Name", "site_name">>,
                  <<"discipline", "Discipline", "discipline">>,
                  <<"task_name", "Task Name", "task_name">>,
                  <<"delay_flag_calc", "Delay Flag", "delay_flag_calc">>,
                  <<"remarks", "Remarks", "remarks">>,
                  <<"photo_folder_url", "Photo Folder", "photo_folder_url">>,
                  <<"cover_photo_share_url", "Cover Photo", "cover_photo_share_url">>,
                  <<"before_photo_share_url", "Before Photo", "before_photo_share_url">>,
                  <<"after_photo_share_url", "After Photo", "after_photo_share_url">> }

\* The value parses as a number: a number, or a text Number() converts.
DenotesNumber(v) ==
    \/ v.t = "number"
    \/ v.t = "string" /\ ToNumber(v) # NaN

\* The value is a day/month/year text.
DenotesDate(v) == v.t = "string" /\ parseDMY(Str(Trim(v.s))) # Null

\* The row has a text that is not blank under a site-identifier spelling.
HasTextSiteId ==
    \E k \in {"Site ID", "site_id"} :
        RowGet(row, k).t = "string" /\ Trim(RowGet(row, k).s) # <<>>

\* C12: mapRowToTask never raises; a row with a site identifier and
\* malformed other fields becomes a record in which every numeric or date
\* field that neither spelling gives a parseable value for is null.
C12_NeverRaises ==
    /\ pc # "throw"
    /\ (pc = "return" /\ IsRow /\ HasTextSiteId) => task # Null
    /\ (pc = "return" /\ task # Null) =>
          /\ \A f \in NumericFields :
                (~DenotesNumber(RowGet(row, f[2])) /\ ~DenotesNumber(RowGet(row, f[3])))
                    => task[f[1]] = Null
          /\ \A f \in DateFields :
                (~DenotesDate(RowGet(row, f[2])) /\ ~DenotesDate(RowGet(row, f[3])))
                    => task[f[1]] = Null

C12_Witness ==
    /\ pc = "return"
    /\ RowGet(row, "Site ID") = Str(<<"S","1">>)
    /\ RowGet(row, "Progress %") = Str(<<"a","b","c">>)
    /\ RowGet(row, "planned_start") = Str(<<" ","4","2"," ">>)
    /\ task # Null
    /\ task.progress_pct = Null /\ task.planned_start = Null
    /\ task.site_id = Str(<<"S","1">>)

\* The first spelling's value when it is non-empty, else the second's.
FirstNonEmpty(key1, key2) ==
    IF RowGet(row, key1) \notin {Undefined, Null, Str(<<>>)}
    THEN RowGet(row, key1) ELSE RowGet(row, key2)
NonEmptyValue(v) == v \notin {Undefined, Null, Str(<<>>)}

\* C13: every field takes the first spelling's value when that is non-empty
\* and otherwise the second's; with neither, a string field is "" and a
\* numeric or date field is null; a numeric field holds the number the
\* chosen value denotes, 0 included, and is null when it denotes none.
C13_FirstNonEmptyWins ==
    (pc = "return" /\ task # Null) =>
        /\ \A f \in StringFields :
              LET v == FirstNonEmpty(f[2], f[3])
              IN  task[f[1]] = IF NonEmptyValue(v) THEN Str(Trim(ToStr(v))) ELSE Str(<<>>)
        /\ \A f \in NumericFields :
              LET v == FirstNonEmpty(f[2], f[3])
              IN  task[f[1]] = IF NonEmptyValue(v) /\ ToNumber(v) # NaN
                               THEN ToNumber(v) ELSE Null
        /\ \A f \in DateFields :
              LET v == FirstNonEmpty(f[2], f[3])
              IN  task[f[1]] = IF NonEmptyValue(v) THEN parseDMY(Str(Trim(ToStr(v))))
                               ELSE Null

\* C20: every record mapRowToTask returns has a non-empty site_id.
C20_SiteIdNeverEmpty ==
    (pc = "return" /\ task # Null) => task.site_id # Str(<<>>)

\* ------------------------------------------------------------------------
\* Workbooks the server can answer with
\* ------------------------------------------------------------------------

Grid(pairs) ==
    [a \in {p[1] : p \in pairs} |-> Cell(Str((CHOOSE p \in pairs : p[1] = a)[2]))]

\* Two data rows, compliance Yes / no / blank in V2..X2, IPC cells in Y2..AD2.
DataEntryFull == Grid({
    <<"A1", <<"S","i","t","e"," ","I","D">>>>,
    <<"V1", <<"N","o","_","o","f","_","S","t","a","f","f","_","R","F","B">>>>,
    <<"W1", <<"C","E","S","M","P","S","_","S","u","b","m","i","t","t","e","d">>>>,
    <<"X1", <<"O","H","S","_","M","e","a","s","u","r","e","s">>>>,
    <<"Y1", <<"I","P","C"," ","1">>>>,
    <<"Z1", <<"I","P","C"," ","2">>>>,
    <<"AA1", <<"I","P","C"," ","3">>>>,
    <<"AB1", <<"I","P","C"," ","4">>>>,
    <<"AC1", <<"I","P","C"," ","5">>>>,
    <<"AD1", <<"I","P","C"," ","6">>>>,
    <<"A2", <<"S","1">>>>,
    <<"V2", <<"Y","e","s">>>>,
    <<"W2", <<"n","o">>>>,
    <<"Y2", <<"r","e","l","e","a","s","e","d">>>>,
    <<"Z2", <<"i","n"," ","p","r","o","c","e","s","s">>>>,
    <<"AA2", <<"s","u","b","m","i","t","t","e","d">>>>,
    <<"AB2", <<"n","o","t"," ","s","u","b","m","i","t","t","e","d">>>>,
    <<"AD2", <<"r","e","l","e","a","s","e","d">>>>,
    <<"A3", <<"S","2">>>>,
    <<"V3", <<"N","o">>>> })

\* A worksheet placed before Data_Entry in the same workbook.
SummarySheet == Grid({
    <<"A1", <<"S","i","t","e"," ","I","D">>>>,
    <<"A2", <<"X","9">>>>,
    <<"V1", <<"O","H","S">>>>,
    <<"V2", <<"N","o">>>> })

\* The only worksheet of a workbook that has no Data_Entry.
FirstSheetOnly == Grid({
    <<"A1", <<"s","i","t","e","_","i","d">>>>,
    <<"V1", <<"S","t","a","f","f"," ","R","F","B">>>>,
    <<"W1", <<"C","E","S","M","P","S">>>>,
    <<"X1", <<"O","H","S">>>>,
    <<"A2", <<"S","7">>>>,
    <<"V2", <<"y","e","s">>>>,
    <<"W2", <<" ","Y","e","s">>>>,
    <<"X2", <<"Y","E","S">>>>,
    <<"Y1", <<"I","P","C"," ","1">>>>,
    <<"Y2", <<"r","e","l","e","a","s","e","d">>>> })

\* A Data_Entry worksheet with its header row and nothing else.
DataEntryHeaderOnly == Grid({
    <<"A1", <<"S","i","t","e"," ","I","D">>>>,
    <<"V1", <<"N","o","_","o","f","_","S","t","a","f","f","_","R","F","B">>>>,
    <<"W1", <<"C","E","S","M","P","S","_","S","u","b","m","i","t","t","e","d">>>>,
    <<"X1", <<"O","H","S","_","M","e","a","s","u","r","e","s">>>>,
    <<"Y1", <<"I","P","C"," ","1">>>> })

WorkbookIds == {"full", "noDataEntry", "headerOnly"}

\* The workbook XLSX.read decodes from the payload `id`.
Workbook(id) ==
    CASE id = "full" ->
            [SheetNames |-> <<"Summary", "Data_Entry">>,
             Sheets |-> [nm \in {"Summary", "Data_Entry"} |->
                            IF nm = "Summary" THEN SummarySheet ELSE DataEntryFull]]
      [] id = "noDataEntry" ->
            [SheetNames |-> <<"Sheet1">>,
             Sheets |-> [nm \in {"Sheet1"} |-> FirstSheetOnly]]
      [] id = "headerOnly" ->
            [SheetNames |-> <<"Data_Entry">>,
             Sheets |-> [nm \in {"Data_Entry"} |-> DataEntryHeaderOnly]]

\* What one HTTP GET and the decoding of its body end in: the fetch rejects
\* (neterr), the status is not a success (http), the body cannot be read or
\* decoded (badbody), or a workbook is decoded (ok).
NoResponse == [kind |-> "none", wb |-> "none"]
Responses ==
    {[kind |-> k, wb |-> "none"] : k \in {"neterr", "http", "badbody"}}
    \cup {[kind |-> "ok", wb |-> w] : w \in WorkbookIds}

\* What `served` keeps of a per-source answer: the workbook of a decoded
\* one, and of the three kinds of failure only that it was one.
Seen(resp) == IF resp.kind = "ok" THEN resp ELSE [kind |-> "failed", wb |-> "none"]

\* ------------------------------------------------------------------------
\* Configuration (./config)
\* ------------------------------------------------------------------------

\* CONFIG.tabName
tabName == "Data_Entry"

\* The i-th entry of SHEET_SOURCES.
Source(i) ==
    [packageId        |-> "PKG-" \o ToString(i),
     packageName      |-> "Package " \o ToString(i),
     publishedXlsxUrl |-> "https://docs.google.com/pub/" \o ToString(i)]

\* ------------------------------------------------------------------------
\* Reading a workbook
\* ------------------------------------------------------------------------

RECURSIVE Join(_)
\* A text as an object key.
Join(chars) == IF chars = <<>> THEN "" ELSE Head(chars) \o Join(Tail(chars))

Range(f) == {f[i] : i \in DOMAIN f}

\* let sheetName = 'Data_Entry'; if (!SheetNames.includes(sheetName))
\* sheetName = SheetNames[0]; worksheet = Sheets[sheetName]
SelectWorksheet_firstSheet(wb) ==
    IF wb.SheetNames = <<>> THEN Undefined ELSE wb.Sheets[wb.SheetNames[1]]

SelectWorksheet(wb) ==
    IF "Data_Entry" \in Range(wb.SheetNames) THEN wb.Sheets["Data_Entry"]
    ELSE IF wb.SheetNames = <<>> THEN Undefined
    ELSE wb.Sheets[wb.SheetNames[1]]

\* workbook.Sheets[CONFIG.tabName]
IPCWorksheet_fallback(wb) == SelectWorksheet(wb)

IPCWorksheet(wb) ==
    IF tabName \in DOMAIN wb.Sheets THEN wb.Sheets[tabName] ELSE Undefined

\* The object of data row r: one key per header cell of row 1, holding the
\* cell's text, or null (defval) where the row has no cell.
JsonRow(ws, r) ==
    LET hdrCols == {c \in 0..GridCols : encode_cell(0, c) \in DOMAIN ws}
        key(c)  == Join(ToStr(ws[encode_cell(0, c)].v))
    IN  [k \in {key(c) : c \in hdrCols} |->
            LET c == CHOOSE d \in hdrCols : key(d) = k
            IN  IF encode_cell(r, c) \in DOMAIN ws
                THEN Str(ToStr(ws[encode_cell(r, c)].v))
                ELSE Null]

RECURSIVE JsonRowsFrom(_, _)
JsonRowsFrom(ws, r) ==
    IF r > GridRows THEN <<>>
    ELSE (IF \E c \in 0..GridCols : encode_cell(r, c) \in DOMAIN ws
          THEN <<JsonRow(ws, r)>> ELSE <<>>)
         \o JsonRowsFrom(ws, r + 1)

\* XLSX.utils.sheet_to_json(worksheet, { raw: false, defval: null }): the
\* rows below the header row that hold a cell, in order; none for a
\* worksheet that is undefined.
sheet_to_json(ws) == IF ws = Undefined THEN <<>> ELSE JsonRowsFrom(ws, 1)

\* ------------------------------------------------------------------------
\* fetchAllSheets
\* ------------------------------------------------------------------------

\* The rows fetchAllSheets reads from each decodable payload.
RowsOfPayload ==
    [w \in WorkbookIds |-> sheet_to_json(SelectWorksheet(Workbook(w)))]

Pending == [status |-> "pending", value |-> Null, reason |-> "none"]
Fulfilled(v) == [status |-> "fulfilled", value |-> v, reason |-> "none"]
Rejected(why) == [status |-> "rejected", value |-> Null, reason |-> why]

\* The promise of one source's async function, once its request is answered.
SheetsTask(source, resp) ==
    IF resp.kind = "ok"
    THEN Fulfilled([packageId |-> source.packageId,
                    rows |-> RowsOfPayload[resp.wb]])
    ELSE Rejected("Error")

\* Map.prototype.set on a map kept as its entries in insertion order.
MapSet(m, k, v) ==
    IF \E j \in DOMAIN m : m[j].key = k
    THEN [j \in DOMAIN m |-> IF m[j].key = k THEN [key |-> k, value |-> v] ELSE m[j]]
    ELSE Append(m, [key |-> k, value |-> v])

MapKeys(m) == [j \in DOMAIN m |-> m[j].key]
MapGet(m, k) == m[CHOOSE j \in DOMAIN m : m[j].key = k].value

RECURSIVE DataMapFrom_skipRejected(_, _, _)
DataMapFrom_skipRejected(results, sources, i) ==
    IF i = 0 THEN <<>>
    ELSE LET m == DataMapFrom_skipRejected(results, sources, i - 1)
         IN  IF results[i].status = "fulfilled"
             THEN MapSet(m, results[i].value.packageId, results[i].value.rows)
             ELSE m

RECURSIVE DataMapFrom(_, _, _)
\* results.forEach((result, index) => ...) over the first i results.
DataMapFrom(results, sources, i) ==
    IF i = 0 THEN <<>>
    ELSE LET m == DataMapFrom(results, sources, i - 1)
         IN  IF results[i].status = "fulfilled"
             THEN MapSet(m, results[i].value.packageId, results[i].value.rows)
             ELSE MapSet(m, sources[i].packageId, <<>>)

\* How a promise built from Promise.all over `results` would settle.
AllOutcome(results) ==
    IF \E i \in DOMAIN results : results[i].status = "rejected"
    THEN "rejected" ELSE "fulfilled"

\* await Promise.allSettled(...): fulfilled whatever the results are.
SheetsOutcome(results) == "fulfilled"

\* ------------------------------------------------------------------------
\* fetchAllComplianceData
\* ------------------------------------------------------------------------

staffRfbNames == <<"No_of_Staff_RFB", "No of Staff RFB", "Staff RFB", "No_of_Staff_RFB">>
cesmpNames    == <<"CESMPS_Submitted", "CESMPS_Submitte", "CEMSPS_Submitted", "CESMPS">>
ohsNames      == <<"OHS_Measures", "OHS Measures", "OHS", "OHS_Measures">>

RECURSIVE FirstPresent_last(_, _)
FirstPresent_last(r, names) ==
    IF names = <<>> THEN Null
    ELSE LET later == FirstPresent_last(r, Tail(names))
         IN  IF later # Null THEN later
             ELSE IF /\ Head(names) \in DOMAIN r
                     /\ r[Head(names)] \notin {Null, Undefined, Str(<<>>)}
                  THEN r[Head(names)]
                  ELSE Null

RECURSIVE FirstPresent(_, _)
\* for (const colName of names) { if (colName in row && row[colName] is not
\* null, undefined or '') { value = row[colName]; break; } }
FirstPresent(r, names) ==
    IF names = <<>> THEN Null
    ELSE IF /\ Head(names) \in DOMAIN r
            /\ r[Head(names)] \notin {Null, Undefined, Str(<<>>)}
         THEN r[Head(names)]
         ELSE FirstPresent(r, Tail(names))

\* value?.toString() ?? null
ToStringOrNull(v) == IF v = Null \/ v = Undefined THEN Null ELSE Str(ToStr(v))

\* if (jsonRows.length > 0) { first row, candidate scan, parse } else
\* parseComplianceData(null)
ComplianceFromRows(jsonRows) ==
    IF Len(jsonRows) > 0
    THEN LET r == jsonRows[1]
         IN  parseComplianceData(
                 RawComplianceData(FirstPresent(r, staffRfbNames),
                                   ToStringOrNull(FirstPresent(r, cesmpNames)),
                                   ToStringOrNull(FirstPresent(r, ohsNames))))
    ELSE parseComplianceData(Null)

\* The try block after the workbook is read.
ExtractCompliance(wb) == ComplianceFromRows(sheet_to_json(SelectWorksheet(wb)))

ComplianceOfPayload == [w \in WorkbookIds |-> ExtractCompliance(Workbook(w))]

\* ------------------------------------------------------------------------
\* The candidate-header scan over a first data row
\* ------------------------------------------------------------------------

\* A header the row does not have.
Absent == [t |-> "absent", n |-> 0, s |-> <<>>]

\* Headers spelled almost like a candidate: other case, trailing blank.
NearStaffHeaders == {"no_of_staff_rfb", "Staff RFB "}
NearCesmpHeaders == {"cesmps"}
NearOhsHeaders   == {"OHS "}

\* The row that has the headers `a` gives a value other than Absent.
RowFrom(a) == [k \in {h \in DOMAIN a : a[h] # Absent} |-> a[k]]

\* Rows in which the candidates of one field hold every combination of
\* absent, undefined, null, "", Yes and No, next to near-miss headers.
FieldRows(names, near) ==
    { RowFrom(a @@ b) :
        a \in [Range(names) -> {Absent, Undefined, Null, Str(<<>>), Yes, No}],
        b \in [near -> {Absent, Yes}] }

\* Rows over all candidates of the three fields at once.
CrossRows ==
    { RowFrom(a) : a \in [Range(staffRfbNames) \cup Range(cesmpNames) \cup Range(ohsNames)
                             -> {Absent, Yes, No}] }

\* First data rows; Undefined stands for a worksheet without a data row.
ComplianceRows ==
    FieldRows(staffRfbNames, NearStaffHeaders) \cup FieldRows(cesmpNames, NearCesmpHeaders)
        \cup FieldRows(ohsNames, NearOhsHeaders) \cup CrossRows \cup {Undefined}

HeadersInit ==
    /\ pc = "call"
    /\ row \in ComplianceRows
    /\ compliance = Null
    /\ raw = Null /\ sheet = Null /\ ipcData = Null /\ task = Null
    /\ NoIngestion

CallComplianceFromRows ==
    /\ pc = "call"
    /\ compliance' = ComplianceFromRows(IF row = Undefined THEN <<>> ELSE <<row>>)
    /\ pc' = "return"
    /\ UNCHANGED <<raw, sheet, ipcData, row, task, ingestVars>>

SpecHeaders == HeadersInit /\ [][CallComplianceFromRows]_vars

\* The positions of the candidates the row has a non-empty value for.
Qualifying(names) ==
    { i \in 1..Len(names) :
        /\ names[i] \in DOMAIN row
        /\ row[names[i]] \notin {Null, Undefined, Str(<<>>)} }
Least(S) == CHOOSE i \in S : \A j \in S : i <= j
CandidatesOf == [no_of_staff_rfb |-> staffRfbNames, cesmps_submitted |-> cesmpNames,
                 ohs_measures |-> ohsNames]

\* C15: each compliance field takes the value of the first candidate header,
\* in list order, that the first data row has with a value other than null,
\* undefined and ""; later candidates are ignored; with no such candidate
\* the field is Unknown; a header spelled in another case or with extra
\* white space is no candidate.
C15_FirstCandidateWins ==
    (pc = "return" /\ row # Undefined) =>
        \A f \in ComplianceFieldNames :
            LET names == CandidatesOf[f]
            IN  compliance[f] = IF Qualifying(names) = {} THEN Null
                                ELSE row[names[Least(Qualifying(names))]]

C15_Witness ==
    /\ pc = "return"
    /\ row # Undefined
    /\ DOMAIN row = {"CESMPS_Submitte", "CEMSPS_Submitted", "CESMPS", "cesmps"}
    /\ row["CESMPS_Submitte"] = Str(<<>>)
    /\ row["CEMSPS_Submitted"] = No
    /\ row["CESMPS"] = Yes
    /\ compliance.cesmps_submitted = No
    /\ compliance.no_of_staff_rfb = Null

ComplianceOnError_rethrow(source, why) == Rejected(why)

\* The catch block of one source's async function.
ComplianceOnError(source, why) ==
    Fulfilled([packageId |-> source.packageId, compliance |-> parseComplianceData(Null)])

\* The promise of one source's async function, once its request is answered.
ComplianceTask(source, resp) ==
    IF resp.kind = "ok"
    THEN Fulfilled([packageId |-> source.packageId,
                    compliance |-> ComplianceOfPayload[resp.wb]])
    ELSE ComplianceOnError(source, "Error")

RECURSIVE ComplianceMapFrom_reversed(_, _)
ComplianceMapFrom_reversed(results, i) ==
    IF i = 0 THEN <<>>
    ELSE LET m == ComplianceMapFrom_reversed(results, i - 1)
         IN  IF results[i].status = "fulfilled"
             THEN <<[key |-> results[i].value.packageId,
                     value |-> results[i].value.compliance]>> \o m
             ELSE m

RECURSIVE ComplianceMapFrom(_, _)
\* results.forEach((result) => { if fulfilled: complianceMap.set(...) })
ComplianceMapFrom(results, i) ==
    IF i = 0 THEN <<>>
    ELSE LET m == ComplianceMapFrom(results, i - 1)
         IN  IF results[i].status = "fulfilled"
             THEN MapSet(m, results[i].value.packageId, results[i].value.compliance)
             ELSE m

\* ------------------------------------------------------------------------
\* fetchAllIPCData
\* ------------------------------------------------------------------------

IPCNoSource_sixUnknown ==
    [records |-> [i \in 1..6 |-> [ipcNumber |-> ipcLabels[i], status |-> Null]]]

\* if (!source) return { records: [] }
IPCNoSource == [records |-> <<>>]

IPCSource_last(sources) == IF sources = <<>> THEN Undefined ELSE sources[Len(sources)]

\* const source = SHEET_SOURCES[0]
IPCSource(sources) == IF sources = <<>> THEN Undefined ELSE sources[1]

\* The catch block.
IPCOnError == [records |-> <<>>]

\* The try block after the workbook is read.
ExtractIPC(wb) ==
    LET sh == IPCWorksheet(wb)
    IN  IF sh = Undefined THEN IPCOnError ELSE parseIPCData(sh)

IPCOfPayload == [w \in WorkbookIds |-> ExtractIPC(Workbook(w))]

\* The value fetchAllIPCData returns once its request is answered.
IPCResult(resp) ==
    IF resp.kind # "ok" THEN IPCOnError
    ELSE IPCOfPayload[resp.wb]

\* ------------------------------------------------------------------------
\* An ingestion run: the three functions awaited together
\* ------------------------------------------------------------------------

Init ==
    /\ pc = "idle"
    /\ \E n \in 0..MaxSources :
          /\ SHEET_SOURCES = [i \in 1..n |-> Source(i)]
          /\ sheetsTasks = [i \in 1..n |-> Pending]
          /\ complianceTasks = [i \in 1..n |-> Pending]
          /\ served = [sheets |-> [i \in 1..n |-> NoResponse],
                       compliance |-> [i \in 1..n |-> NoResponse],
                       ipc |-> NoResponse,
                       overtook |-> [sheets |-> FALSE, compliance |-> FALSE]]
    /\ ipcPc = "idle"
    /\ settled = [sheets |-> "idle", compliance |-> "idle", ipc |-> "idle"]
    /\ dataMap = <<>> /\ complianceMap = <<>>
    /\ httpGets = 0
    /\ ipcUrl = ""
    /\ cache = EmptyCache
    /\ ipcData = Null
    /\ raw = Null /\ compliance = Null /\ sheet = Null /\ row = Null /\ task = Null

\* Promise.all([fetchAllSheets(), fetchAllComplianceData(), fetchAllIPCData()]):
\* each function runs to its first await. The first two issue one request
\* per source; fetchAllIPCData waits for the xlsx module first.
IngestAllSheets ==
    /\ pc = "idle"
    /\ pc' = "running"
    /\ httpGets' = httpGets + 2 * Len(SHEET_SOURCES)
    /\ settled' = [sheets |-> "pending", compliance |-> "pending", ipc |-> "pending"]
    /\ ipcPc' = "import"
    /\ UNCHANGED <<SHEET_SOURCES, sheetsTasks, complianceTasks, dataMap, complianceMap,
                   served, ipcData, ipcUrl, cache, pureVars>>

\* The answer for source i comes while an earlier source's is awaited.
Overtakes(tasks, i) == \E j \in 1..(i - 1) : tasks[j].status = "pending"

\* fetchAllSheets: the request of source i is answered.
SheetsResponse(i) ==
    /\ pc = "running"
    /\ sheetsTasks[i].status = "pending"
    /\ \E resp \in Responses :
          /\ sheetsTasks' = [sheetsTasks EXCEPT ![i] = SheetsTask(SHEET_SOURCES[i], resp)]
          /\ served' = [served EXCEPT !.sheets[i] = Seen(resp),
                                      !.overtook.sheets = @ \/ Overtakes(sheetsTasks, i)]
    /\ UNCHANGED <<pc, SHEET_SOURCES, complianceTasks, ipcPc, settled, dataMap,
                   complianceMap, httpGets, ipcData, ipcUrl, cache, pureVars>>

\* fetchAllSheets: every per-source promise has settled; build the map.
SheetsSettled ==
    /\ pc = "running"
    /\ settled.sheets = "pending"
    /\ \A i \in DOMAIN sheetsTasks : sheetsTasks[i].status # "pending"
    /\ dataMap' = DataMapFrom(sheetsTasks, SHEET_SOURCES, Len(sheetsTasks))
    /\ settled' = [settled EXCEPT !.sheets = SheetsOutcome(sheetsTasks)]
    /\ UNCHANGED <<pc, SHEET_SOURCES, sheetsTasks, complianceTasks, ipcPc, complianceMap,
                   served, httpGets, ipcData, ipcUrl, cache, pureVars>>

\* fetchAllComplianceData: the request of source i is answered.
ComplianceResponse(i) ==
    /\ pc = "running"
    /\ complianceTasks[i].status = "pending"
    /\ \E resp \in Responses :
          /\ complianceTasks' =
                 [complianceTasks EXCEPT ![i] = ComplianceTask(SHEET_SOURCES[i], resp)]
          /\ served' = [served EXCEPT !.compliance[i] = Seen(resp),
                                      !.overtook.compliance =
                                          @ \/ Overtakes(complianceTasks, i)]
    /\ UNCHANGED <<pc, SHEET_SOURCES, sheetsTasks, ipcPc, settled, dataMap,
                   complianceMap, httpGets, ipcData, ipcUrl, cache, pureVars>>

\* fetchAllComplianceData: every per-source promise has settled.
ComplianceSettled ==
    /\ pc = "running"
    /\ settled.compliance = "pending"
    /\ \A i \in DOMAIN complianceTasks : complianceTasks[i].status # "pending"
    /\ complianceMap' = ComplianceMapFrom(complianceTasks, Len(complianceTasks))
    /\ settled' = [settled EXCEPT !.compliance = "fulfilled"]
    /\ UNCHANGED <<pc, SHEET_SOURCES, sheetsTasks, complianceTasks, ipcPc, dataMap,
                   served, httpGets, ipcData, ipcUrl, cache, pureVars>>

\* fetchAllIPCData: the xlsx module is loaded; without a first source it
\* returns, otherwise it requests the first source's export.
IPCImported ==
    /\ pc = "running"
    /\ ipcPc = "import"
    /\ LET source == IPCSource(SHEET_SOURCES)
       IN  IF source = Undefined
           THEN /\ ipcData' = IPCNoSource
                /\ ipcPc' = "returned"
                /\ settled' = [settled EXCEPT !.ipc = "fulfilled"]
                /\ UNCHANGED <<httpGets, ipcUrl>>
           ELSE /\ ipcPc' = "fetch"
                /\ ipcUrl' = source.publishedXlsxUrl
                /\ httpGets' = httpGets + 1
                /\ UNCHANGED <<ipcData, settled>>
    /\ UNCHANGED <<pc, SHEET_SOURCES, sheetsTasks, complianceTasks, dataMap,
                   complianceMap, served, cache, pureVars>>

\* fetchAllIPCData: its request is answered.
IPCResponse ==
    /\ pc = "running"
    /\ ipcPc = "fetch"
    /\ \E resp \in Responses :
          /\ ipcData' = IPCResult(resp)
          /\ served' = [served EXCEPT !.ipc = resp]
    /\ ipcPc' = "returned"
    /\ settled' = [settled EXCEPT !.ipc = "fulfilled"]
    /\ UNCHANGED <<pc, SHEET_SOURCES, sheetsTasks, complianceTasks, dataMap,
                   complianceMap, httpGets, ipcUrl, cache, pureVars>>

\* Promise.all settles: rejected as soon as one function's promise is,
\* fulfilled once all three are.
AwaitAll ==
    /\ pc = "running"
    /\ \/ \E f \in DOMAIN settled : settled[f] = "rejected"
       \/ \A f \in DOMAIN settled : settled[f] = "fulfilled"
    /\ pc' = IF \E f \in DOMAIN settled : settled[f] = "rejected" THEN "failed" ELSE "done"
    /\ UNCHANGED <<ingestVars, ipcData, pureVars>>

Next ==
    \/ IngestAllSheets
    \/ \E i \in DOMAIN SHEET_SOURCES : SheetsResponse(i)
    \/ SheetsSettled
    \/ \E i \in DOMAIN SHEET_SOURCES : ComplianceResponse(i)
    \/ ComplianceSettled
    \/ IPCImported
    \/ IPCResponse
    \/ AwaitAll

Spec == Init /\ [][Next]_vars

\* ------------------------------------------------------------------------
\* Claims about the ingestion run
\* ------------------------------------------------------------------------

PackageIds == [i \in DOMAIN SHEET_SOURCES |-> SHEET_SOURCES[i].packageId]

\* The first source's export was fetched and decoded and holds the
\* designated worksheet.
IPCWorksheetServed ==
    /\ SHEET_SOURCES # <<>>
    /\ served.ipc.kind = "ok"
    /\ tabName \in Range(Workbook(served.ipc.wb).SheetNames)

\* C3: every result of fetchAllIPCData has 0 or 6 records: 6 when the first
\* source's export is fetched and decoded and holds the designated
\* worksheet, 0 when there is no source, the fetch fails or is refused, the
\* payload cannot be decoded or the worksheet is missing.
C3_ZeroOrSix ==
    ipcPc = "returned" =>
        /\ Len(ipcData.records) \in {0, 6}
        /\ IPCWorksheetServed => Len(ipcData.records) = 6
        /\ ~IPCWorksheetServed => Len(ipcData.records) = 0

C3_Witness ==
    /\ ipcPc = "returned"
    /\ served.ipc = [kind |-> "ok", wb |-> "noDataEntry"]
    /\ Len(ipcData.records) = 0
    /\ \E i \in DOMAIN SHEET_SOURCES : served.sheets[i].kind = "ok"

\* The site identifiers in the data rows of each payload's worksheet, and
\* the header they stand under.
SiteIdsOfPayload(w) ==
    CASE w = "full"        -> <<"Site ID", <<Str(<<"S","1">>), Str(<<"S","2">>)>> >>
      [] w = "noDataEntry" -> <<"site_id", <<Str(<<"S","7">>)>> >>
      [] w = "headerOnly"  -> <<"Site ID", <<>> >>

\* C6: whichever sources fail, fetchAllSheets returns one entry per
\* configured source; a source that succeeds has exactly its own rows and a
\* source that fails has an empty row list.
C6_SheetsIsolation ==
    settled.sheets = "fulfilled" =>
        /\ MapKeys(dataMap) = PackageIds
        /\ \A i \in DOMAIN SHEET_SOURCES :
              LET rows == MapGet(dataMap, SHEET_SOURCES[i].packageId)
                  sv   == served.sheets[i]
              IN  /\ sv.kind = "failed" => rows = <<>>
                  /\ sv.kind = "ok" =>
                        LET own == SiteIdsOfPayload(sv.wb)
                        IN  /\ rows = sheetsTasks[i].value.rows
                            /\ Len(rows) = Len(own[2])
                            /\ \A k \in DOMAIN rows : rows[k][own[1]] = own[2][k]

C6_Witness ==
    /\ settled.sheets = "fulfilled"
    /\ Len(SHEET_SOURCES) = 2
    /\ served.sheets[1].kind = "failed"
    /\ served.sheets[2] = [kind |-> "ok", wb |-> "full"]
    /\ MapGet(dataMap, "PKG-1") = <<>>
    /\ Len(MapGet(dataMap, "PKG-2")) = 2

\* C7: fetchAllComplianceData returns one record per configured package,
\* keyed by packageId; a source whose fetch fails, whose workbook cannot be
\* read or whose worksheet has no data row gets an UNKNOWN record with a
\* single diagnostic issue, and every other source's record is computed from
\* its own data.
C7_OneRecordPerPackage ==
    settled.compliance = "fulfilled" =>
        /\ MapKeys(complianceMap) = PackageIds
        /\ \A i \in DOMAIN SHEET_SOURCES :
              LET rec == MapGet(complianceMap, SHEET_SOURCES[i].packageId)
                  sv  == served.compliance[i]
              IN  /\ (sv.kind = "failed" \/ sv.wb = "headerOnly") =>
                        /\ rec.status = "UNKNOWN"
                        /\ rec.issues = <<"Compliance data not available">>
                  /\ sv.wb = "full" =>
                        /\ rec.status = "NON_COMPLIANT"
                        /\ rec.no_of_staff_rfb = Yes /\ rec.cesmps_submitted = No
                        /\ rec.issues = <<"CESMPS not submitted",
                                          "OHS measures status unknown">>
                  /\ sv.wb = "noDataEntry" =>
                        /\ rec.status = "COMPLIANT"
                        /\ rec.issues = <<>>

C7_Witness ==
    /\ settled.compliance = "fulfilled"
    /\ Len(SHEET_SOURCES) = 2
    /\ served.compliance[1] = [kind |-> "ok", wb |-> "full"]
    /\ served.compliance[2].kind = "failed"
    /\ MapGet(complianceMap, "PKG-1").status = "NON_COMPLIANT"
    /\ MapGet(complianceMap, "PKG-2").status = "UNKNOWN"

\* C8: whatever fails, none of fetchAllSheets, fetchAllComplianceData and
\* fetchAllIPCData rejects, so the run that awaits the three together never
\* fails and, until it has completed, always has a step left to take.
C8_NeverRejects ==
    /\ \A f \in DOMAIN settled : settled[f] # "rejected"
    /\ pc # "failed"
    /\ pc = "done" => \A f \in DOMAIN settled : settled[f] = "fulfilled"
    /\ pc = "done" \/ ENABLED Next

C8_Witness ==
    /\ pc = "done"
    /\ Len(SHEET_SOURCES) = 2
    /\ served.sheets[1].kind = "failed" /\ served.sheets[2].kind = "failed"
    /\ served.compliance[1].kind = "failed"
    /\ served.ipc.kind = "badbody"

\* C9: with no configured source the run ends with an empty rows map, an
\* empty compliance map and an empty IPC list, without an error and without
\* an HTTP request.
C9_EmptySourceList ==
    SHEET_SOURCES = <<>> =>
        /\ httpGets = 0
        /\ settled.sheets = "fulfilled" => dataMap = <<>>
        /\ settled.compliance = "fulfilled" => complianceMap = <<>>
        /\ ipcPc = "returned" => ipcData = [records |-> <<>>]
        /\ pc # "failed"
        /\ \A f \in DOMAIN settled : settled[f] # "rejected"
        /\ pc = "done" =>
              /\ \A f \in DOMAIN settled : settled[f] = "fulfilled"
              /\ ipcPc = "returned"

C9_Witness ==
    /\ SHEET_SOURCES = <<>>
    /\ pc = "done"
    /\ httpGets = 0
    /\ ipcData = [records |-> <<>>]

\* The worksheet of each workbook that is named "Data_Entry" or, in a
\* workbook without one, comes first.
DataEntryElseFirst == [full |-> "Data_Entry", noDataEntry |-> "Sheet1",
                       headerOnly |-> "Data_Entry"]
RowsRead == [w \in WorkbookIds |-> sheet_to_json(Workbook(w).Sheets[DataEntryElseFirst[w]])]
ComplianceRead == [w \in WorkbookIds |-> ComplianceFromRows(RowsRead[w])]
IPCReadWithFallback ==
    [w \in WorkbookIds |-> parseIPCData(Workbook(w).Sheets[DataEntryElseFirst[w]])]
IPCReadDesignated ==
    [w \in WorkbookIds |->
        IF "Data_Entry" \in Range(Workbook(w).SheetNames)
        THEN parseIPCData(Workbook(w).Sheets["Data_Entry"])
        ELSE [records |-> <<>>]]

\* The task rows and the compliance of every decoded workbook come from its
\* "Data_Entry" worksheet, or from its first worksheet when it has none.
RowsAndComplianceFromDataEntryElseFirst ==
    /\ settled.sheets = "fulfilled" =>
          \A i \in DOMAIN SHEET_SOURCES :
              served.sheets[i].kind = "ok" =>
                  MapGet(dataMap, SHEET_SOURCES[i].packageId) = RowsRead[served.sheets[i].wb]
    /\ settled.compliance = "fulfilled" =>
          \A i \in DOMAIN SHEET_SOURCES :
              served.compliance[i].kind = "ok" =>
                  MapGet(complianceMap, SHEET_SOURCES[i].packageId)
                      = ComplianceRead[served.compliance[i].wb]

\* C16 as stated: every fetch of a workbook, for task rows, for compliance
\* and for IPC, reads the worksheet "Data_Entry" when the workbook has one
\* and the first worksheet otherwise.
C16_EveryFetchFallsBack ==
    /\ RowsAndComplianceFromDataEntryElseFirst
    /\ (ipcPc = "returned" /\ SHEET_SOURCES # <<>> /\ served.ipc.kind = "ok")
          => ipcData = IPCReadWithFallback[served.ipc.wb]

\* C16 amended: the fetches for task rows and for compliance read the
\* worksheet "Data_Entry" when the workbook has one and the first worksheet
\* otherwise; the IPC fetch reads only the designated worksheet and returns
\* an empty list for a workbook without it.
C16_FallbackExceptIPC ==
    /\ RowsAndComplianceFromDataEntryElseFirst
    /\ (ipcPc = "returned" /\ SHEET_SOURCES # <<>> /\ served.ipc.kind = "ok")
          => ipcData = IPCReadDesignated[served.ipc.wb]

C16_Witness ==
    /\ ipcPc = "returned" /\ settled.sheets = "fulfilled" /\ settled.compliance = "fulfilled"
    /\ Len(SHEET_SOURCES) = 2
    /\ served.ipc = [kind |-> "ok", wb |-> "noDataEntry"]
    /\ ipcData.records = <<>>
    /\ served.sheets[1] = [kind |-> "ok", wb |-> "noDataEntry"]
    /\ MapGet(dataMap, "PKG-1")[1]["site_id"] = Str(<<"S","7">>)
    /\ served.sheets[2] = [kind |-> "ok", wb |-> "full"]
    /\ MapGet(dataMap, "PKG-2")[1]["Site ID"] = Str(<<"S","1">>)
    /\ served.compliance[1] = [kind |-> "ok", wb |-> "noDataEntry"]
    /\ MapGet(complianceMap, "PKG-1").status = "COMPLIANT"

\* What fetchAllIPCData returns for each answer to its request.
IPCByResponse(resp) ==
    IF resp.kind = "ok" THEN IPCReadDesignated[resp.wb] ELSE [records |-> <<>>]

\* C17: the IPC list comes from the first configured source alone:
\* fetchAllIPCData issues one request, to the first source's URL, and its
\* result is determined by the answer to that request, whatever the other
\* sources' fetches end in; when that request fails the list is empty even
\* if every other fetch succeeds.
C17_FirstSourceOnly ==
    /\ (ipcPc \in {"fetch", "returned"} /\ SHEET_SOURCES # <<>>) =>
          /\ ipcUrl = SHEET_SOURCES[1].publishedXlsxUrl
          /\ ipcUrl = "https://docs.google.com/pub/1"
          /\ httpGets = 2 * Len(SHEET_SOURCES) + 1
    /\ (ipcPc = "returned" /\ SHEET_SOURCES # <<>>) =>
          /\ ipcData = IPCByResponse(served.ipc)
          /\ served.ipc.kind # "ok" => ipcData.records = <<>>

C17_Witness ==
    /\ ipcPc = "returned" /\ settled.sheets = "fulfilled" /\ settled.compliance = "fulfilled"
    /\ Len(SHEET_SOURCES) = 2
    /\ served.ipc.kind = "neterr"
    /\ \A i \in 1..2 : /\ served.sheets[i] = [kind |-> "ok", wb |-> "full"]
                       /\ served.compliance[i] = [kind |-> "ok", wb |-> "full"]
    /\ Len(MapGet(dataMap, "PKG-2")) = 2
    /\ ipcData.records = <<>>

\* C21: within one run each source's export is retrieved by a single HTTP
\* GET, and the source's task rows, its compliance record and (for the
\* first source) the IPC list come from that one response; so no source
\* has retrieved task rows next to a fetch-failure compliance record, or a
\* compliance record computed from data next to task rows emptied by a
\* fetch failure.
C21_OneGetPerSource ==
    /\ httpGets <= Len(SHEET_SOURCES)
    /\ (settled.sheets = "fulfilled" /\ settled.compliance = "fulfilled") =>
          \A i \in DOMAIN SHEET_SOURCES :
              LET rows == MapGet(dataMap, SHEET_SOURCES[i].packageId)
                  rec  == MapGet(complianceMap, SHEET_SOURCES[i].packageId)
              IN  /\ served.sheets[i] = served.compliance[i]
                  /\ Len(rows) > 0 => rec.issues # <<"Compliance data not available">>
                  /\ served.sheets[i].kind = "failed" =>
                        rec.issues = <<"Compliance data not available">>
    /\ (ipcPc = "returned" /\ settled.sheets = "fulfilled" /\ SHEET_SOURCES # <<>>) =>
          Seen(served.ipc) = served.sheets[1]

\* The compliance record of a source whose fetch failed.
ComplianceUnavailable ==
    [no_of_staff_rfb |-> Null, cesmps_submitted |-> Null, ohs_measures |-> Null,
     status |-> "UNKNOWN", issues |-> <<"Compliance data not available">>]

\* C22: the maps fetchAllSheets and fetchAllComplianceData return are
\* determined by the per-source responses alone, in whatever order the
\* fetches completed: one entry per source in configured source order, each
\* entry computed from that source's own response.
C22_OrderIndependent ==
    /\ settled.sheets = "fulfilled" =>
          dataMap = [i \in DOMAIN SHEET_SOURCES |->
                        [key |-> SHEET_SOURCES[i].packageId,
                         value |-> IF served.sheets[i].kind = "ok"
                                   THEN RowsRead[served.sheets[i].wb] ELSE <<>>]]
    /\ settled.compliance = "fulfilled" =>
          complianceMap = [i \in DOMAIN SHEET_SOURCES |->
                              [key |-> SHEET_SOURCES[i].packageId,
                               value |-> IF served.compliance[i].kind = "ok"
                                         THEN ComplianceRead[served.compliance[i].wb]
                                         ELSE ComplianceUnavailable]]

\* Both maps built after the second source answered before the first.
C22_Witness ==
    /\ settled.sheets = "fulfilled" /\ settled.compliance = "fulfilled"
    /\ Len(SHEET_SOURCES) = 2
    /\ served.overtook.sheets /\ served.overtook.compliance
    /\ served.sheets[1].kind = "failed"
    /\ served.sheets[2] = [kind |-> "ok", wb |-> "full"]
    /\ served.compliance[1] = [kind |-> "ok", wb |-> "noDataEntry"]
    /\ served.compliance[2] = [kind |-> "ok", wb |-> "full"]
    /\ MapKeys(dataMap) = <<"PKG-1", "PKG-2">>
    /\ MapKeys(complianceMap) = <<"PKG-1", "PKG-2">>
    /\ dataMap[1].value = <<>> /\ Len(dataMap[2].value) = 2
    /\ complianceMap[1].value.status = "COMPLIANT"
    /\ complianceMap[2].value.status = "NON_COMPLIANT"

\* ------------------------------------------------------------------------
\* The snapshot cache (DataCache.getData)
\* ------------------------------------------------------------------------

\* The fields of a Snapshot an aggregation run gathers.
Parts == {"tasks", "complianceByPackage", "ipc"}

Populated(c) == c.snapshot # NoSnapshot
Fresh(c) == Populated(c) /\ ~c.stale

JoinsInFlight_never(c) == FALSE

\* The single-flight guard: a run is in flight, the caller awaits it.
JoinsInFlight(c) == c.inflight # {}

\* The run a joining caller awaits.
InFlightRun(c) == CHOOSE r \in c.inflight : \A q \in c.inflight : q <= r

Publish_inPlace(snapshot, r, p) == [snapshot EXCEPT ![p] = r]

\* What a reader of the cache sees once part p of run r has arrived: the
\* Snapshot held before, the run's parts being gathered aside.
Publish(snapshot, r, p) == snapshot

\* A request for current data by caller k, forced or not: answered from a
\* fresh Snapshot, else joined to the run in flight, else starting a run.
GetData(k, force) ==
    /\ cache.callers[k].at = "idle"
    /\ IF ~force /\ Fresh(cache)
       THEN cache' = [cache EXCEPT !.callers[k] =
                         [at |-> "served", joined |-> 0, got |-> cache.snapshot]]
       ELSE IF JoinsInFlight(cache)
       THEN cache' = [cache EXCEPT !.callers[k] =
                         [at |-> "waiting", joined |-> InFlightRun(cache),
                          got |-> NoSnapshot]]
       ELSE /\ cache.runs < MaxRuns
            /\ cache' = [cache EXCEPT
                            !.runs = cache.runs + 1,
                            !.inflight = cache.inflight \cup {cache.runs + 1},
                            !.callers[k] = [at |-> "waiting", joined |-> cache.runs + 1,
                                            got |-> NoSnapshot]]
    /\ UNCHANGED <<pc, ipcData, pureVars, SHEET_SOURCES, sheetsTasks, complianceTasks, ipcPc,
                   settled, dataMap, complianceMap, served, httpGets, ipcUrl>>

\* One of the three results of run r arrives.
PartArrives(r, p) ==
    /\ r \in cache.inflight
    /\ p \notin cache.parts[r]
    /\ cache' = [cache EXCEPT !.parts[r] = cache.parts[r] \cup {p},
                              !.snapshot = Publish(cache.snapshot, r, p)]
    /\ UNCHANGED <<pc, ipcData, pureVars, SHEET_SOURCES, sheetsTasks, complianceTasks, ipcPc,
                   settled, dataMap, complianceMap, served, httpGets, ipcUrl>>

\* Run r has all its results: its Snapshot replaces the held one and is
\* handed to every caller that awaits the run.
Complete(r) ==
    /\ r \in cache.inflight
    /\ cache.parts[r] = Parts
    /\ cache' = [cache EXCEPT
                    !.snapshot = SnapshotOf(r),
                    !.stale = FALSE,
                    !.inflight = cache.inflight \ {r},
                    !.callers = [k \in Callers |->
                                    IF cache.callers[k].at = "waiting"
                                       /\ cache.callers[k].joined = r
                                    THEN [at |-> "served", joined |-> r,
                                          got |-> SnapshotOf(r)]
                                    ELSE cache.callers[k]]]
    /\ UNCHANGED <<pc, ipcData, pureVars, SHEET_SOURCES, sheetsTasks, complianceTasks, ipcPc,
                   settled, dataMap, complianceMap, served, httpGets, ipcUrl>>

\* The held Snapshot grows older than the time-to-live.
Expire ==
    /\ Fresh(cache)
    /\ cache' = [cache EXCEPT !.stale = TRUE]
    /\ UNCHANGED <<pc, ipcData, pureVars, SHEET_SOURCES, sheetsTasks, complianceTasks, ipcPc,
                   settled, dataMap, complianceMap, served, httpGets, ipcUrl>>

\* A served caller is done with its answer and may ask again.
Return(k) ==
    /\ cache.callers[k].at = "served"
    /\ cache' = [cache EXCEPT !.callers[k] = NoCall]
    /\ UNCHANGED <<pc, ipcData, pureVars, SHEET_SOURCES, sheetsTasks, complianceTasks, ipcPc,
                   settled, dataMap, complianceMap, served, httpGets, ipcUrl>>

CacheInit ==
    /\ pc = "idle"
    /\ cache = EmptyCache
    /\ NoFetch
    /\ ipcData = Null
    /\ raw = Null /\ compliance = Null /\ sheet = Null /\ row = Null /\ task = Null

CacheNext ==
    \/ \E k \in Callers, force \in BOOLEAN : GetData(k, force)
    \/ \E r \in 1..MaxRuns, p \in Parts : PartArrives(r, p)
    \/ \E r \in 1..MaxRuns : Complete(r)
    \/ Expire
    \/ \E k \in Callers : Return(k)

SpecCache == CacheInit /\ [][CacheNext]_vars

\* C18: at most one aggregation run is in flight; a request that arrives
\* while a run is in flight starts no run, its caller awaits that run and
\* receives that run's Snapshot, so all callers waiting at the same time
\* wait for the same one run.
C18_SingleFlight ==
    /\ Cardinality(cache.inflight) <= 1
    /\ cache.inflight \subseteq {cache.runs}
    /\ \A k \in Callers :
          /\ cache.callers[k].at = "waiting" => cache.callers[k].joined \in cache.inflight
          /\ (cache.callers[k].at = "served" /\ cache.callers[k].joined # 0)
                => cache.callers[k].got = SnapshotOf(cache.callers[k].joined)
    /\ \A k \in Callers, m \in Callers :
          (cache.callers[k].at = "waiting" /\ cache.callers[m].at = "waiting")
              => cache.callers[k].joined = cache.callers[m].joined

C18_Witness ==
    /\ cache.runs = 1
    /\ cache.inflight = {}
    /\ \A k \in 1..2 : cache.callers[k] = [at |-> "served", joined |-> 1, got |-> SnapshotOf(1)]
    /\ cache.snapshot = SnapshotOf(1)

\* The Snapshot is whole: all its fields come from the same run.
Whole(snapshot) ==
    /\ snapshot.tasks = snapshot.fetchedAt
    /\ snapshot.complianceByPackage = snapshot.fetchedAt
    /\ snapshot.ipc = snapshot.fetchedAt

\* C19: at every moment, a refresh running or not, the held Snapshot and
\* every Snapshot handed to a caller is whole: its tasks, compliance map,
\* IPC list and timestamp come from the same aggregation run; while a run
\* is being gathered the held Snapshot is still the one of an earlier run.
C19_AtomicReplacement ==
    /\ Whole(cache.snapshot)
    /\ \A k \in Callers : Whole(cache.callers[k].got)
    /\ \A r \in cache.inflight : cache.snapshot.fetchedAt < r

C19_Witness ==
    /\ cache.inflight = {2}
    /\ cache.parts[2] = {"tasks"}
    /\ cache.snapshot = SnapshotOf(1)
    /\ \E k \in Callers : cache.callers[k] = [at |-> "served", joined |-> 0, got |-> SnapshotOf(1)]

====
